---------------------------- MODULE Spec2Model ----------------------------
(***************************************************************************)
(* Mazewright: the grid model (mazewright/maze.py), the three generators   *)
(* (mazewright/algorithms), the dispatcher (mazewright/__init__.py) and    *)
(* the breadth-first solver (mazewright/solver.py).                        *)
(*                                                                         *)
(* A cell is the pair <<row, col>>, rows and columns counted from 0 as in  *)
(* the source.  The wall state of a cell is the integer the IntFlag holds  *)
(* (NORTH = 1, EAST = 2, SOUTH = 4, WEST = 8).  The program is single      *)
(* threaded: while a generator or the solver runs (pc # "idle") nothing    *)
(* else happens.  Each iteration of a loop of a generator or of the solver *)
(* is one step, and every random draw is a nondeterministic choice.        *)
(***************************************************************************)
EXTENDS Integers, Sequences, FiniteSets, TLC

VARIABLES
    maze,       \* the Maze the caller holds: [rows, cols, grid]; NoMaze before any
    op,         \* the latest call: "none", "create", "carve", "reset", "generate", "run", "solve"
    err,        \* the error the latest call raised, "" when it raised none
    pc,         \* the function that is running: "idle", "backtracker", "prim", "kruskal", "bfs"
    stack,      \* backtracker: the DFS stack
    visited,    \* backtracker, prim: the cells whose entry of the visited matrix is True
    frontier,   \* prim: the frontier list
    walls,      \* kruskal: the candidates of the shuffled list not yet processed
    uf,         \* kruskal, union-find: [parent, rank]
    queue,      \* solver: the deque of <<cell, path>>
    seen,       \* solver: its visited set
    ret,        \* solver: what solve_bfs returned, [none, path]
    unioned,    \* union-find history: element -> least element it was ever unioned with
    ufret       \* union-find: what the latest find or union returned

vars == <<maze, op, err, pc, stack, visited, frontier, walls, uf, queue, seen, ret,
          unioned, ufret>>

genVars == <<stack, visited, frontier, walls, uf>>
bfsVars == <<queue, seen>>
ufHist == <<unioned, ufret>>

-----------------------------------------------------------------------------
(* Bounds of the model *)

\* rows and cols passed to Maze() and generate() range over MinArg..MaxDim,
\* with at most MaxCells cells asked for
MaxDim == 3
MaxCells == 6
\* the elements of a stand-alone UnionFind are 0..size-1, size in 1..MaxUF
MaxUF == 4
\* a grid whose walls the caller has set itself has at most MaxExtDim rows
\* and columns and MaxExtCells cells
MaxExtDim == 2
MaxExtCells == 4

MinArg == 0 - 1
DimArgs == {d \in (MinArg..MaxDim) \X (MinArg..MaxDim) : d[1] * d[2] <= MaxCells}
\* coordinates passed to carve: one below and one above every grid included
CoordArgs == MinArg..MaxDim
\* the selectors passed to generate: the three names and one other
Selectors == {"backtracker", "prim", "kruskal", "invalid"}

-----------------------------------------------------------------------------
(* maze.py: Wall, Cell *)

NORTH == 1
EAST == 2
SOUTH == 4
WEST == 8
ALL == 15

Abs(x) == IF x < 0 THEN 0 - x ELSE x

\* Cell.has_wall: bool(self.walls & direction), direction a single bit
has_wall(w, direction) == (w \div direction) % 2 = 1

\* a mutant of remove_wall: subtracts the bit whether or not it is set
remove_wall_sub(w, direction) == (w - direction) % 16

\* Cell.remove_wall: self.walls &= ~direction
remove_wall(w, direction) == IF has_wall(w, direction) THEN w - direction ELSE w

-----------------------------------------------------------------------------
(* maze.py: Maze *)

Cells(rows, cols) == (0..(rows - 1)) \X (0..(cols - 1))

NoMaze == [rows |-> 0, cols |-> 0, grid |-> << >>]

HasMaze == maze.rows > 0

\* a mutant of the check of Maze.__init__: zero passes
InvalidDimensionsNeg(rows, cols) == rows < 0 \/ cols < 0

\* Maze.__init__: if rows <= 0 or cols <= 0: raise ValueError
InvalidDimensions(rows, cols) == rows <= 0 \/ cols <= 0

\* Maze.__init__: every cell Cell(r, c) with walls = Wall.ALL
NewMaze(rows, cols) ==
    [rows |-> rows, cols |-> cols, grid |-> [cell \in Cells(rows, cols) |-> ALL]]

in_bounds(m, row, col) == 0 <= row /\ row < m.rows /\ 0 <= col /\ col < m.cols

\* a mutant of neighbors: positions outside the grid are kept
neighbors_unchecked(m, row, col) ==
    << <<row - 1, col, NORTH, SOUTH>>,
       <<row, col + 1, EAST, WEST>>,
       <<row + 1, col, SOUTH, NORTH>>,
       <<row, col - 1, WEST, EAST>> >>

\* Maze.neighbors: <<nr, nc, direction, opposite>> in the order N, E, S, W,
\* in-bounds positions only
neighbors(m, row, col) ==
    LET directions == << <<row - 1, col, NORTH, SOUTH>>,
                         <<row, col + 1, EAST, WEST>>,
                         <<row + 1, col, SOUTH, NORTH>>,
                         <<row, col - 1, WEST, EAST>> >>
        inside(d) == in_bounds(m, d[1], d[2])
    IN  SelectSeq(directions, inside)

\* a mutant of the checks of carve: the adjacency test accepts distance 0
carve_error_same(m, r1, c1, r2, c2) ==
    IF ~(in_bounds(m, r1, c1) /\ in_bounds(m, r2, c2)) THEN "OutOfBounds"
    ELSE IF Abs(r1 - r2) + Abs(c1 - c2) > 1 THEN "NotAdjacent"
    ELSE ""

\* Maze.carve, its two checks: the error it raises, "" when it raises none
carve_error(m, r1, c1, r2, c2) ==
    IF ~(in_bounds(m, r1, c1) /\ in_bounds(m, r2, c2)) THEN "OutOfBounds"
    ELSE IF Abs(r1 - r2) + Abs(c1 - c2) # 1 THEN "NotAdjacent"
    ELSE ""

\* a mutant of the two remove_wall calls: the second cell loses the wall of
\* the same direction as the first, not the facing one
carve_pair_same(m, r1, c1, d1, r2, c2, d2) ==
    LET g1 == [m.grid EXCEPT ![<<r1, c1>>] = remove_wall(@, d1)]
    IN  [m EXCEPT !.grid = [g1 EXCEPT ![<<r2, c2>>] = remove_wall(@, d1)]]

\* the two remove_wall calls of one branch of carve
carve_pair(m, r1, c1, d1, r2, c2, d2) ==
    LET g1 == [m.grid EXCEPT ![<<r1, c1>>] = remove_wall(@, d1)]
    IN  [m EXCEPT !.grid = [g1 EXCEPT ![<<r2, c2>>] = remove_wall(@, d2)]]

\* a mutant of carve: the northward branch clears NORTH on both cells
carve_walls_north(m, r1, c1, r2, c2) ==
    IF r2 = r1 - 1 THEN carve_pair(m, r1, c1, NORTH, r2, c2, NORTH)
    ELSE IF r2 = r1 + 1 THEN carve_pair(m, r1, c1, SOUTH, r2, c2, NORTH)
    ELSE IF c2 = c1 + 1 THEN carve_pair(m, r1, c1, EAST, r2, c2, WEST)
    ELSE carve_pair(m, r1, c1, WEST, r2, c2, EAST)

\* a mutant of carve: the eastward branch clears the wall of the first cell only
carve_walls_oneside(m, r1, c1, r2, c2) ==
    IF r2 = r1 - 1 THEN carve_pair(m, r1, c1, NORTH, r2, c2, SOUTH)
    ELSE IF r2 = r1 + 1 THEN carve_pair(m, r1, c1, SOUTH, r2, c2, NORTH)
    ELSE IF c2 = c1 + 1 THEN [m EXCEPT !.grid[<<r1, c1>>] = remove_wall(@, EAST)]
    ELSE carve_pair(m, r1, c1, WEST, r2, c2, EAST)

\* Maze.carve past its checks: the branch on the direction of (r2, c2)
carve_walls(m, r1, c1, r2, c2) ==
    IF r2 = r1 - 1 THEN carve_pair(m, r1, c1, NORTH, r2, c2, SOUTH)
    ELSE IF r2 = r1 + 1 THEN carve_pair(m, r1, c1, SOUTH, r2, c2, NORTH)
    ELSE IF c2 = c1 + 1 THEN carve_pair(m, r1, c1, EAST, r2, c2, WEST)
    ELSE carve_pair(m, r1, c1, WEST, r2, c2, EAST)

\* Maze.carve: the maze it leaves (unchanged when it raises)
carve(m, r1, c1, r2, c2) ==
    IF carve_error(m, r1, c1, r2, c2) = "" THEN carve_walls(m, r1, c1, r2, c2) ELSE m

\* a mutant of reset: the walls are left as they are
reset_keep(m) == m

\* Maze.reset: cell.walls = Wall.ALL for every cell
reset(m) == [m EXCEPT !.grid = [cell \in DOMAIN m.grid |-> ALL]]

-----------------------------------------------------------------------------
(* algorithms/kruskal.py: UnionFind *)

\* UnionFind.__init__
UnionFindInit(size) ==
    [parent |-> [x \in 0..(size - 1) |-> x], rank |-> [x \in 0..(size - 1) |-> 0]]

NoUF == UnionFindInit(0)

\* a mutant of find: the root is looked up and no parent is rewritten
RECURSIVE find_plain(_, _)
find_plain(parent, x) ==
    IF parent[x] # x
    THEN [parent |-> parent, root |-> find_plain(parent, parent[x]).root]
    ELSE [parent |-> parent, root |-> parent[x]]

\* UnionFind.find: the parent array it leaves and the root it returns
RECURSIVE find(_, _)
find(parent, x) ==
    IF parent[x] # x
    THEN LET r == find(parent, parent[x])
             p == [r.parent EXCEPT ![x] = r.root]
         IN  [parent |-> p, root |-> p[x]]
    ELSE [parent |-> parent, root |-> parent[x]]

\* a mutant of union: the root of the larger rank is put under the other one
union_small_wins(u, x, y) ==
    LET fx == find(u.parent, x)
        fy == find(fx.parent, y)
        root_x == fx.root
        root_y == fy.root
        parent == fy.parent
    IN  IF root_x = root_y
        THEN [parent |-> parent, rank |-> u.rank, ret |-> FALSE]
        ELSE IF u.rank[root_x] < u.rank[root_y]
        THEN [parent |-> [parent EXCEPT ![root_y] = root_x], rank |-> u.rank, ret |-> TRUE]
        ELSE IF u.rank[root_x] > u.rank[root_y]
        THEN [parent |-> [parent EXCEPT ![root_x] = root_y], rank |-> u.rank, ret |-> TRUE]
        ELSE [parent |-> [parent EXCEPT ![root_y] = root_x],
              rank |-> [u.rank EXCEPT ![root_x] = @ + 1], ret |-> TRUE]

\* a mutant of union: on equal ranks it links y itself, not the root of y
union_link_y(u, x, y) ==
    LET fx == find(u.parent, x)
        fy == find(fx.parent, y)
        root_x == fx.root
        root_y == fy.root
        parent == fy.parent
    IN  IF root_x = root_y
        THEN [parent |-> parent, rank |-> u.rank, ret |-> FALSE]
        ELSE IF u.rank[root_x] < u.rank[root_y]
        THEN [parent |-> [parent EXCEPT ![root_x] = root_y], rank |-> u.rank, ret |-> TRUE]
        ELSE IF u.rank[root_x] > u.rank[root_y]
        THEN [parent |-> [parent EXCEPT ![root_y] = root_x], rank |-> u.rank, ret |-> TRUE]
        ELSE [parent |-> [parent EXCEPT ![y] = root_x],
              rank |-> [u.rank EXCEPT ![root_x] = @ + 1], ret |-> TRUE]

\* UnionFind.union: the arrays it leaves and the boolean it returns
union(u, x, y) ==
    LET fx == find(u.parent, x)
        fy == find(fx.parent, y)
        root_x == fx.root
        root_y == fy.root
        parent == fy.parent
    IN  IF root_x = root_y
        THEN [parent |-> parent, rank |-> u.rank, ret |-> FALSE]
        ELSE IF u.rank[root_x] < u.rank[root_y]
        THEN [parent |-> [parent EXCEPT ![root_x] = root_y], rank |-> u.rank, ret |-> TRUE]
        ELSE IF u.rank[root_x] > u.rank[root_y]
        THEN [parent |-> [parent EXCEPT ![root_y] = root_x], rank |-> u.rank, ret |-> TRUE]
        ELSE [parent |-> [parent EXCEPT ![root_y] = root_x],
              rank |-> [u.rank EXCEPT ![root_x] = @ + 1], ret |-> TRUE]

-----------------------------------------------------------------------------
(* The caller's operations on a Maze *)

NoRet == [none |-> TRUE, path |-> << >>]

Idle == pc = "idle"

\* maze = Maze(rows, cols); the caller keeps what it held when the constructor raises
CallCreate(rows, cols) ==
    /\ Idle
    /\ op' = "create"
    /\ IF InvalidDimensions(rows, cols)
       THEN err' = "InvalidDimensions" /\ maze' = maze
       ELSE err' = "" /\ maze' = NewMaze(rows, cols)
    /\ ret' = NoRet
    /\ UNCHANGED <<pc, genVars, bfsVars, ufHist>>

\* maze.carve(r1, c1, r2, c2)
CallCarve(r1, c1, r2, c2) ==
    /\ Idle /\ HasMaze
    /\ op' = "carve"
    /\ err' = carve_error(maze, r1, c1, r2, c2)
    /\ maze' = carve(maze, r1, c1, r2, c2)
    /\ ret' = NoRet
    /\ UNCHANGED <<pc, genVars, bfsVars, ufHist>>

\* maze.reset()
CallReset ==
    /\ Idle /\ HasMaze
    /\ op' = "reset"
    /\ err' = ""
    /\ maze' = reset(maze)
    /\ ret' = NoRet
    /\ UNCHANGED <<pc, genVars, bfsVars, ufHist>>

-----------------------------------------------------------------------------
(* Helpers on lists *)

\* list.pop(idx) leaves the list without its element idx (counted from 1 here)
RemoveAt(s, i) == SubSeq(s, 1, i - 1) \o SubSeq(s, i + 1, Len(s))

\* "x in list"
InSeq(x, s) == \E i \in 1..Len(s) : s[i] = x

\* the locals of a function that is not running
ClearGen ==
    /\ stack' = << >>
    /\ visited' = {}
    /\ frontier' = << >>
    /\ walls' = << >>
    /\ uf' = NoUF

-----------------------------------------------------------------------------
(* algorithms/backtracker.py *)

\* generate(maze) up to the loop: reset, the random start cell, visited, stack
BacktrackerStart(m) ==
    \E start_row \in 0..(m.rows - 1), start_col \in 0..(m.cols - 1) :
        /\ pc' = "backtracker"
        /\ err' = ""
        /\ visited' = {<<start_row, start_col>>}
        /\ stack' = << <<start_row, start_col>> >>
        /\ maze' = reset(m)
        /\ frontier' = << >>
        /\ walls' = << >>
        /\ uf' = NoUF

\* a mutant of the filter of the backtracker: every neighbour is a candidate
bt_unvisited_all(m, v, row, col) == neighbors(m, row, col)

\* the list unvisited_neighbors of the cell on top of the stack
bt_unvisited(m, v, row, col) ==
    LET fresh(n) == <<n[1], n[2]>> \notin v
    IN  SelectSeq(neighbors(m, row, col), fresh)

\* one iteration of "while stack"
BacktrackerStep ==
    /\ pc = "backtracker"
    /\ stack # << >>
    /\ LET current_row == stack[Len(stack)][1]
           current_col == stack[Len(stack)][2]
           unvisited_neighbors == bt_unvisited(maze, visited, current_row, current_col)
       IN  IF unvisited_neighbors # << >>
           THEN \E i \in 1..Len(unvisited_neighbors) :
                    LET nr == unvisited_neighbors[i][1]
                        nc == unvisited_neighbors[i][2]
                        e == carve_error(maze, current_row, current_col, nr, nc)
                    IN  IF e # ""
                        THEN /\ err' = e
                             /\ pc' = "idle"
                             /\ ClearGen
                             /\ UNCHANGED maze
                        ELSE /\ maze' = carve(maze, current_row, current_col, nr, nc)
                             /\ visited' = visited \cup {<<nr, nc>>}
                             /\ stack' = Append(stack, <<nr, nc>>)
                             /\ UNCHANGED <<err, pc, frontier, walls, uf>>
           ELSE /\ stack' = SubSeq(stack, 1, Len(stack) - 1)
                /\ UNCHANGED <<maze, err, pc, visited, frontier, walls, uf>>
    /\ UNCHANGED <<op, bfsVars, ret, ufHist>>

\* "while stack" ends: generate returns
BacktrackerReturn ==
    /\ pc = "backtracker"
    /\ stack = << >>
    /\ pc' = "idle"
    /\ ClearGen
    /\ UNCHANGED <<maze, op, err, bfsVars, ret, ufHist>>

-----------------------------------------------------------------------------
(* algorithms/prim.py *)

\* the walls of (row, col) appended to the frontier: for each neighbour not
\* visited, the wall unless it is in the frontier already
RECURSIVE prim_add(_, _, _, _, _, _)
prim_add(f, v, row, col, ns, i) ==
    IF i > Len(ns) THEN f
    ELSE LET wall == <<row, col, ns[i][1], ns[i][2]>>
         IN  IF <<ns[i][1], ns[i][2]>> \notin v /\ ~InSeq(wall, f)
             THEN prim_add(Append(f, wall), v, row, col, ns, i + 1)
             ELSE prim_add(f, v, row, col, ns, i + 1)

\* generate(maze) up to the loop: reset, the random start cell, the first frontier
PrimStart(m) ==
    \E start_row \in 0..(m.rows - 1), start_col \in 0..(m.cols - 1) :
        /\ pc' = "prim"
        /\ err' = ""
        /\ visited' = {<<start_row, start_col>>}
        /\ maze' = reset(m)
        /\ frontier' = prim_add(<< >>, {<<start_row, start_col>>}, start_row, start_col,
                                neighbors(m, start_row, start_col), 1)
        /\ stack' = << >>
        /\ walls' = << >>
        /\ uf' = NoUF

\* a mutant of the test of Prim's loop: every popped wall is carved
prim_fresh_always(v, r2, c2) == TRUE

\* a mutant of the stale-entry test of Prim: every popped entry is dropped
prim_fresh_never(v, r2, c2) == FALSE

\* "if not visited[r2][c2]"
prim_fresh(v, r2, c2) == <<r2, c2>> \notin v

\* one iteration of "while frontier"
PrimStep ==
    /\ pc = "prim"
    /\ frontier # << >>
    /\ \E idx \in 1..Len(frontier) :
        LET r1 == frontier[idx][1]
            c1 == frontier[idx][2]
            r2 == frontier[idx][3]
            c2 == frontier[idx][4]
            popped == RemoveAt(frontier, idx)
            e == carve_error(maze, r1, c1, r2, c2)
        IN  IF prim_fresh(visited, r2, c2)
            THEN IF e # ""
                 THEN /\ err' = e
                      /\ pc' = "idle"
                      /\ ClearGen
                      /\ UNCHANGED maze
                 ELSE /\ maze' = carve(maze, r1, c1, r2, c2)
                      /\ visited' = visited \cup {<<r2, c2>>}
                      /\ frontier' = prim_add(popped, visited \cup {<<r2, c2>>}, r2, c2,
                                              neighbors(maze, r2, c2), 1)
                      /\ UNCHANGED <<err, pc, stack, walls, uf>>
            ELSE /\ frontier' = popped
                 /\ UNCHANGED <<maze, err, pc, visited, stack, walls, uf>>
    /\ UNCHANGED <<op, bfsVars, ret, ufHist>>

\* "while frontier" ends: generate returns
PrimReturn ==
    /\ pc = "prim"
    /\ frontier = << >>
    /\ pc' = "idle"
    /\ ClearGen
    /\ UNCHANGED <<maze, op, err, bfsVars, ret, ufHist>>

-----------------------------------------------------------------------------
(* algorithms/kruskal.py: generate *)

cell_index(m, row, col) == row * m.cols + col

\* a mutant of the candidate list: the west wall of a cell is listed too
RECURSIVE kruskal_walls_twice(_, _)
kruskal_walls_twice(m, k) ==
    IF k >= m.rows * m.cols THEN << >>
    ELSE LET row == k \div m.cols
             col == k % m.cols
         IN  (IF col < m.cols - 1 THEN << <<row, col, row, col + 1>> >> ELSE << >>)
             \o (IF col > 0 THEN << <<row, col, row, col - 1>> >> ELSE << >>)
             \o (IF row < m.rows - 1 THEN << <<row, col, row + 1, col>> >> ELSE << >>)
             \o kruskal_walls_twice(m, k + 1)

\* the list walls before the shuffle: row by row, for each cell its east wall
\* when it is not in the last column, then its south wall when it is not in
\* the last row; k is the row-major position of the cell the loops are at
RECURSIVE kruskal_walls(_, _)
kruskal_walls(m, k) ==
    IF k >= m.rows * m.cols THEN << >>
    ELSE LET row == k \div m.cols
             col == k % m.cols
         IN  (IF col < m.cols - 1 THEN << <<row, col, row, col + 1>> >> ELSE << >>)
             \o (IF row < m.rows - 1 THEN << <<row, col, row + 1, col>> >> ELSE << >>)
             \o kruskal_walls(m, k + 1)

\* generate(maze) up to the loop: reset, the union-find, the candidate list.
\* random.shuffle fixes the order of the list before the loop; the model draws
\* that order one element at a time, when the loop reaches it (KruskalStep), so
\* every order of the list is a run and every run is an order of the list.
KruskalStart(m) ==
    /\ pc' = "kruskal"
    /\ err' = ""
    /\ maze' = reset(m)
    /\ uf' = UnionFindInit(m.rows * m.cols)
    /\ walls' = kruskal_walls(m, 0)
    /\ stack' = << >>
    /\ visited' = {}
    /\ frontier' = << >>

\* a mutant of the test of Kruskal's loop: cells of one set are joined too
kruskal_joins_always(root1, root2) == TRUE

\* "if uf.find(idx1) != uf.find(idx2)"
kruskal_joins(root1, root2) == root1 # root2

\* one iteration of "for r1, c1, r2, c2 in walls"
KruskalStep ==
    /\ pc = "kruskal"
    /\ walls # << >>
    /\ \E i \in 1..Len(walls) :
        LET r1 == walls[i][1]
            c1 == walls[i][2]
            r2 == walls[i][3]
            c2 == walls[i][4]
            idx1 == cell_index(maze, r1, c1)
            idx2 == cell_index(maze, r2, c2)
            e == carve_error(maze, r1, c1, r2, c2)
        \* f1 and f2 are the two find calls of the test, found the arrays
        \* they leave, u the union call: one value each
        IN  \E f1 \in {find(uf.parent, idx1)} :
            \E f2 \in {find(f1.parent, idx2)} :
            \E found \in {[parent |-> f2.parent, rank |-> uf.rank]} :
            \E u \in {union(found, idx1, idx2)} :
            IF kruskal_joins(f1.root, f2.root)
            THEN IF e # ""
                 THEN /\ err' = e
                      /\ pc' = "idle"
                      /\ ClearGen
                      /\ UNCHANGED maze
                 ELSE /\ maze' = carve(maze, r1, c1, r2, c2)
                      /\ uf' = [parent |-> u.parent, rank |-> u.rank]
                      /\ walls' = RemoveAt(walls, i)
                      /\ UNCHANGED <<err, pc, stack, visited, frontier>>
            ELSE /\ uf' = found
                 /\ walls' = RemoveAt(walls, i)
                 /\ UNCHANGED <<maze, err, pc, stack, visited, frontier>>
    /\ UNCHANGED <<op, bfsVars, ret, ufHist>>

\* the list is exhausted: generate returns
KruskalReturn ==
    /\ pc = "kruskal"
    /\ walls = << >>
    /\ pc' = "idle"
    /\ ClearGen
    /\ UNCHANGED <<maze, op, err, bfsVars, ret, ufHist>>

-----------------------------------------------------------------------------
(* __init__.py: generate, and the generators called on a maze the caller holds *)

algorithms == {"backtracker", "prim", "kruskal"}

\* algorithms[algorithm](maze)
StartAlgorithm(algorithm, m) ==
    CASE algorithm = "backtracker" -> BacktrackerStart(m)
      [] algorithm = "prim" -> PrimStart(m)
      [] algorithm = "kruskal" -> KruskalStart(m)

\* a mutant of generate: the selector is looked up before the maze is built
generate_error_selector_first(rows, cols, algorithm) ==
    IF algorithm \notin algorithms THEN "UnknownAlgorithm"
    ELSE IF InvalidDimensions(rows, cols) THEN "InvalidDimensions"
    ELSE ""

\* generate up to the call of the algorithm: Maze(rows, cols) raises first,
\* then the selector is looked up
generate_error(rows, cols, algorithm) ==
    IF InvalidDimensions(rows, cols) THEN "InvalidDimensions"
    ELSE IF algorithm \notin algorithms THEN "UnknownAlgorithm"
    ELSE ""

\* maze = generate(rows, cols, algorithm); the caller keeps what it held when
\* generate raises
CallGenerate(rows, cols, algorithm) ==
    /\ Idle
    /\ op' = "generate"
    /\ IF generate_error(rows, cols, algorithm) # ""
       THEN /\ err' = generate_error(rows, cols, algorithm)
            /\ UNCHANGED <<maze, pc, genVars>>
       ELSE StartAlgorithm(algorithm, NewMaze(rows, cols))
    /\ ret' = NoRet
    /\ UNCHANGED <<bfsVars, ufHist>>

\* backtracker.generate(maze), prim.generate(maze), kruskal.generate(maze)
CallRun(algorithm) ==
    /\ Idle /\ HasMaze
    /\ op' = "run"
    /\ StartAlgorithm(algorithm, maze)
    /\ ret' = NoRet
    /\ UNCHANGED <<bfsVars, ufHist>>

-----------------------------------------------------------------------------
(* solver.py: solve_bfs *)

\* a mutant of directions: the wall flags of north and south are exchanged
directions_crossed ==
    << <<0 - 1, 0, SOUTH>>, <<0, 1, EAST>>, <<1, 0, NORTH>>, <<0, 0 - 1, WEST>> >>

\* the list directions of solve_bfs: <<dr, dc, wall_dir>>
directions == << <<0 - 1, 0, NORTH>>, <<0, 1, EAST>>, <<1, 0, SOUTH>>, <<0, 0 - 1, WEST>> >>

\* a mutant of the wall test of solve_bfs: no wall blocks
bfs_blocked_never(w, wall_dir) == FALSE

\* a mutant of the wall test of solve_bfs: any wall of the cell blocks
bfs_blocked_any(w, wall_dir) == w # 0

\* "if cell.has_wall(wall_dir): continue"
bfs_blocked(w, wall_dir) == has_wall(w, wall_dir)

\* a mutant of the loop over directions: a discovered cell is put at the
\* front of the queue
RECURSIVE bfs_expand_front(_, _, _, _, _, _, _)
bfs_expand_front(m, row, col, path, q, s, i) ==
    IF i > Len(directions) THEN [queue |-> q, seen |-> s]
    ELSE LET new_row == row + directions[i][1]
             new_col == col + directions[i][2]
         IN  IF \/ <<new_row, new_col>> \in s
                \/ ~in_bounds(m, new_row, new_col)
                \/ has_wall(m.grid[<<row, col>>], directions[i][3])
             THEN bfs_expand_front(m, row, col, path, q, s, i + 1)
             ELSE bfs_expand_front(m, row, col, path,
                                   << <<(<<new_row, new_col>>),
                                        Append(path, <<new_row, new_col>>)>> >> \o q,
                                   s \cup {<<new_row, new_col>>}, i + 1)

\* the loop over directions for the cell (row, col) just dequeued, from
\* direction i on: the queue and the visited set it leaves
RECURSIVE bfs_expand(_, _, _, _, _, _, _)
bfs_expand(m, row, col, path, q, s, i) ==
    IF i > Len(directions) THEN [queue |-> q, seen |-> s]
    ELSE LET new_row == row + directions[i][1]
             new_col == col + directions[i][2]
         IN  IF \/ <<new_row, new_col>> \in s
                \/ ~in_bounds(m, new_row, new_col)
                \/ bfs_blocked(m.grid[<<row, col>>], directions[i][3])
             THEN bfs_expand(m, row, col, path, q, s, i + 1)
             ELSE bfs_expand(m, row, col, path,
                             Append(q, <<(<<new_row, new_col>>),
                                         Append(path, <<new_row, new_col>>)>>),
                             s \cup {<<new_row, new_col>>}, i + 1)

\* solve_bfs(maze) up to the loop
CallSolve ==
    /\ Idle /\ HasMaze
    /\ op' = "solve"
    /\ err' = ""
    /\ LET start == <<0, 0>>
           end == <<maze.rows - 1, maze.cols - 1>>
       IN  IF ~in_bounds(maze, start[1], start[2]) \/ ~in_bounds(maze, end[1], end[2])
           THEN /\ ret' = NoRet
                /\ UNCHANGED <<pc, bfsVars>>
           ELSE /\ queue' = << <<start, <<start>> >> >>
                /\ seen' = {start}
                /\ pc' = "bfs"
                /\ ret' = NoRet
    /\ UNCHANGED <<maze, genVars, ufHist>>

\* one iteration of "while queue": popleft, then return the path or expand
BfsStep ==
    /\ pc = "bfs"
    /\ queue # << >>
    /\ LET row == queue[1][1][1]
           col == queue[1][1][2]
           path == queue[1][2]
           end == <<maze.rows - 1, maze.cols - 1>>
           next == bfs_expand(maze, row, col, path, Tail(queue), seen, 1)
       IN  IF <<row, col>> = end
           THEN /\ ret' = [none |-> FALSE, path |-> path]
                /\ pc' = "idle"
                /\ queue' = << >>
                /\ seen' = {}
           ELSE /\ queue' = next.queue
                /\ seen' = next.seen
                /\ UNCHANGED <<ret, pc>>
    /\ UNCHANGED <<maze, op, err, genVars, ufHist>>

\* "while queue" ends: return None
BfsReturnNone ==
    /\ pc = "bfs"
    /\ queue = << >>
    /\ ret' = NoRet
    /\ pc' = "idle"
    /\ seen' = {}
    /\ UNCHANGED <<maze, op, err, queue, genVars, ufHist>>

-----------------------------------------------------------------------------
(* The program: a caller of the package *)

NoUFRet == [op |-> "none", root |-> 0 - 1, merged |-> FALSE]

Init ==
    /\ maze = NoMaze
    /\ op = "none"
    /\ err = ""
    /\ pc = "idle"
    /\ stack = << >>
    /\ visited = {}
    /\ frontier = << >>
    /\ walls = << >>
    /\ uf = NoUF
    /\ queue = << >>
    /\ seen = {}
    /\ ret = NoRet
    /\ unioned = << >>
    /\ ufret = NoUFRet

Next ==
    \/ \E d \in DimArgs : CallCreate(d[1], d[2])
    \/ \E r1 \in CoordArgs, c1 \in CoordArgs, r2 \in CoordArgs, c2 \in CoordArgs :
           CallCarve(r1, c1, r2, c2)
    \/ CallReset
    \/ \E d \in DimArgs, algorithm \in Selectors : CallGenerate(d[1], d[2], algorithm)
    \/ \E algorithm \in algorithms : CallRun(algorithm)
    \/ BacktrackerStep
    \/ BacktrackerReturn
    \/ PrimStep
    \/ PrimReturn
    \/ KruskalStep
    \/ KruskalReturn
    \/ CallSolve
    \/ BfsStep
    \/ BfsReturnNone

Spec == Init /\ [][Next]_vars

-----------------------------------------------------------------------------
(* A UnionFind on its own, under any sequence of find and union calls *)

\* uf.find(x)
UFFind(x) ==
    /\ x \in DOMAIN uf.parent
    /\ LET f == find(uf.parent, x)
       IN  /\ uf' = [uf EXCEPT !.parent = f.parent]
           /\ ufret' = [op |-> "find", root |-> f.root, merged |-> FALSE]
    /\ UNCHANGED <<unioned, maze, op, err, pc, stack, visited, frontier, walls,
                   queue, seen, ret>>

\* uf.union(x, y); unioned records that x and y, and all that was unioned with
\* either, are now unioned with each other
UFUnion(x, y) ==
    /\ x \in DOMAIN uf.parent
    /\ y \in DOMAIN uf.parent
    /\ LET u == union(uf, x, y)
           least == IF unioned[x] < unioned[y] THEN unioned[x] ELSE unioned[y]
       IN  /\ uf' = [parent |-> u.parent, rank |-> u.rank]
           /\ ufret' = [op |-> "union", root |-> 0 - 1, merged |-> u.ret]
           /\ unioned' = [z \in DOMAIN unioned |->
                             IF unioned[z] \in {unioned[x], unioned[y]} THEN least
                             ELSE unioned[z]]
    /\ UNCHANGED <<maze, op, err, pc, stack, visited, frontier, walls, queue, seen, ret>>

InitUF ==
    /\ \E size \in 1..MaxUF :
          /\ uf = UnionFindInit(size)
          /\ unioned = [x \in 0..(size - 1) |-> x]
    /\ ufret = NoUFRet
    /\ maze = NoMaze
    /\ op = "none"
    /\ err = ""
    /\ pc = "idle"
    /\ stack = << >>
    /\ visited = {}
    /\ frontier = << >>
    /\ walls = << >>
    /\ queue = << >>
    /\ seen = {}
    /\ ret = NoRet

NextUF ==
    \/ \E x \in 0..(MaxUF - 1) : UFFind(x)
    \/ \E x \in 0..(MaxUF - 1), y \in 0..(MaxUF - 1) : UFUnion(x, y)

SpecUF == InitUF /\ [][NextUF]_vars

-----------------------------------------------------------------------------
(* solve_bfs on a grid whose cells the caller has written itself: Cell.walls
   is a public field, so each cell may hold any of the 16 wall values, whether
   or not the two sides of a wall agree *)

ExtDims ==
    {d \in (1..MaxExtDim) \X (1..MaxExtDim) : d[1] * d[2] <= MaxExtCells}

InitExt ==
    /\ \E d \in ExtDims :
          \E g \in [Cells(d[1], d[2]) -> 0..ALL] :
              maze = [rows |-> d[1], cols |-> d[2], grid |-> g]
    /\ op = "none"
    /\ err = ""
    /\ pc = "idle"
    /\ stack = << >>
    /\ visited = {}
    /\ frontier = << >>
    /\ walls = << >>
    /\ uf = NoUF
    /\ queue = << >>
    /\ seen = {}
    /\ ret = NoRet
    /\ unioned = << >>
    /\ ufret = NoUFRet

NextExt ==
    \/ CallSolve
    \/ BfsStep
    \/ BfsReturnNone

SpecExt == InitExt /\ [][NextExt]_vars

-----------------------------------------------------------------------------
(* What the claims speak of *)

AllCells(m) == Cells(m.rows, m.cols)

Start == <<0, 0>>
Goal(m) == <<m.rows - 1, m.cols - 1>>

WallBits == {NORTH, EAST, SOUTH, WEST}

\* the cell next to a in direction d
Toward(a, d) ==
    IF d = NORTH THEN <<a[1] - 1, a[2]>>
    ELSE IF d = EAST THEN <<a[1], a[2] + 1>>
    ELSE IF d = SOUTH THEN <<a[1] + 1, a[2]>>
    ELSE <<a[1], a[2] - 1>>

Opposite(d) ==
    IF d = NORTH THEN SOUTH ELSE IF d = EAST THEN WEST ELSE IF d = SOUTH THEN NORTH ELSE EAST

Adjacent(a, b) == Abs(a[1] - b[1]) + Abs(a[2] - b[2]) = 1

\* the direction in which the adjacent cell b lies from a
Facing(a, b) == CHOOSE d \in WallBits : Toward(a, d) = b

\* a and b are cells of m next to each other with no wall between them: the
\* facing bit is clear in both
Passage(m, a, b) ==
    /\ a \in AllCells(m) /\ b \in AllCells(m)
    /\ Adjacent(a, b)
    /\ ~has_wall(m.grid[a], Facing(a, b))
    /\ ~has_wall(m.grid[b], Facing(b, a))

\* the carved internal passages as the tests count them (is_perfect_maze): the
\* open east walls off the last column and the open south walls off the last row
carved_edges(m) ==
    Cardinality({c \in AllCells(m) : c[2] < m.cols - 1 /\ ~has_wall(m.grid[c], EAST)})
    + Cardinality({c \in AllCells(m) : c[1] < m.rows - 1 /\ ~has_wall(m.grid[c], SOUTH)})

\* the cells one move away from a cell of s, a move leaving a cell through a
\* side of it that has no wall
OneMove(m, s) ==
    {b \in AllCells(m) : \E a \in s : Adjacent(a, b) /\ ~has_wall(m.grid[a], Facing(a, b))}

\* the cells within k moves of s
RECURSIVE Within(_, _, _)
Within(m, s, k) ==
    IF k = 0 THEN s
    ELSE LET next == s \cup OneMove(m, s)
         IN  IF next = s THEN s ELSE Within(m, next, k - 1)

\* the cells reachable from s
Reachable(m, s) == Within(m, s, m.rows * m.cols)

PerfectMaze(m) ==
    /\ carved_edges(m) = m.rows * m.cols - 1
    /\ \A c \in AllCells(m) : Reachable(m, {c}) = AllCells(m)

\* generate has run its algorithm to the end of its loop, or has returned
Generated ==
    /\ op = "generate"
    /\ err = ""
    /\ \/ pc = "idle"
       \/ pc = "backtracker" /\ stack = << >>
       \/ pc = "prim" /\ frontier = << >>
       \/ pc = "kruskal" /\ walls = << >>

\* solve_bfs has returned
Solved == op = "solve" /\ pc = "idle"

-----------------------------------------------------------------------------
(* C1 *)

\* C1: whatever the dimensions, the algorithm and the random draws, the grid
\* generate ends with is a perfect maze: rows*cols - 1 carved internal
\* passages, and every cell reachable from every other cell.
GenerateYieldsPerfectMaze == Generated => PerfectMaze(maze)

\* a run of Kruskal on a grid of six cells has processed its whole list
GenerateYieldsPerfectMazeWitness ==
    /\ Generated
    /\ pc = "kruskal"
    /\ maze.rows * maze.cols = 6

-----------------------------------------------------------------------------
(* C2 *)

ToSet(p) == {p[i] : i \in 1..Len(p)}

\* C2: on a perfect maze solve_bfs returns a path from (0,0) to
\* (rows-1, cols-1) whose consecutive cells are adjacent with no wall between
\* them, without a repeated cell, of at most rows*cols cells, and no wall-free
\* route from (0,0) to the goal takes fewer moves.
SolveOnPerfectMaze ==
    (Solved /\ PerfectMaze(maze)) =>
        /\ err = ""
        /\ ~ret.none
        /\ Len(ret.path) >= 1
        /\ ret.path[1] = Start
        /\ ret.path[Len(ret.path)] = Goal(maze)
        /\ \A i \in 1..(Len(ret.path) - 1) : Passage(maze, ret.path[i], ret.path[i + 1])
        /\ Cardinality(ToSet(ret.path)) = Len(ret.path)
        /\ Len(ret.path) <= maze.rows * maze.cols
        /\ \/ Len(ret.path) = 1
           \/ Goal(maze) \notin Within(maze, {Start}, Len(ret.path) - 2)

\* the solver has returned a path that turns a corner in a perfect maze of six cells
SolveOnPerfectMazeWitness ==
    /\ Solved
    /\ PerfectMaze(maze)
    /\ maze.rows * maze.cols = 6
    /\ ~ret.none
    /\ Len(ret.path) >= 6

-----------------------------------------------------------------------------
(* C3 *)

Disconnected(m) == Goal(m) \notin Reachable(m, {Start})

\* C3 as stated: the solver returns the absent-path signal on every grid whose
\* corners are disconnected, a grid of a single cell counted among them.
SolveAbsentOnDisconnectedOrSingleCell ==
    (Solved /\ (Disconnected(maze) \/ maze.rows * maze.cols = 1)) =>
        (err = "" /\ ret.none)

\* C3, amended: the solver returns the absent-path signal, and raises nothing,
\* on every grid in which no wall-free route leads from (0,0) to
\* (rows-1, cols-1); a grid of a single cell is not such a grid.
SolveAbsentOnDisconnected ==
    (Solved /\ Disconnected(maze)) => (err = "" /\ ret.none)

\* the solver has returned on a grid with carved passages that do not reach the goal
SolveAbsentOnDisconnectedWitness ==
    /\ Solved
    /\ Disconnected(maze)
    /\ ret.none
    /\ Cardinality(Reachable(maze, {Start})) >= 3

-----------------------------------------------------------------------------
(* C4 *)

\* C4: from any grid state, a carve that succeeds leaves the wall of (r1,c1)
\* facing (r2,c2) and the wall of (r2,c2) facing (r1,c1) absent, and every
\* other wall bit of the grid, and the grid's shape, as they were.
CarveClearsFacingWallsOnly ==
    (Idle /\ HasMaze) =>
        \A r1 \in CoordArgs, c1 \in CoordArgs, r2 \in CoordArgs, c2 \in CoordArgs :
            carve_error(maze, r1, c1, r2, c2) = "" =>
                LET a == <<r1, c1>>
                    b == <<r2, c2>>
                    after == carve(maze, r1, c1, r2, c2)
                IN  /\ after.rows = maze.rows
                    /\ after.cols = maze.cols
                    /\ DOMAIN after.grid = DOMAIN maze.grid
                    /\ ~has_wall(after.grid[a], Facing(a, b))
                    /\ ~has_wall(after.grid[b], Facing(b, a))
                    /\ \A c \in AllCells(maze), d \in WallBits :
                           <<c, d>> \notin {<<a, Facing(a, b)>>, <<b, Facing(b, a)>>} =>
                               (has_wall(after.grid[c], d) <=> has_wall(maze.grid[c], d))

\* a carve has succeeded and left one passage in a grid of six cells
CarveClearsFacingWallsOnlyWitness ==
    /\ Idle
    /\ op = "carve"
    /\ err = ""
    /\ maze.rows * maze.cols = 6
    /\ carved_edges(maze) = 1

-----------------------------------------------------------------------------
(* C5 *)

\* C5: carve raises OutOfBounds whenever one of the two cells is outside the
\* grid, and otherwise NotAdjacent whenever their Manhattan distance is not 1
\* (the same cell twice included); whenever it raises, the grid is unchanged.
CarveFailsWithoutChange ==
    (Idle /\ HasMaze) =>
        \A r1 \in CoordArgs, c1 \in CoordArgs, r2 \in CoordArgs, c2 \in CoordArgs :
            LET outside == <<r1, c1>> \notin AllCells(maze) \/ <<r2, c2>> \notin AllCells(maze)
                raised == carve_error(maze, r1, c1, r2, c2)
            IN  /\ outside => raised = "OutOfBounds"
                /\ (~outside /\ Abs(r1 - r2) + Abs(c1 - c2) # 1) => raised = "NotAdjacent"
                /\ raised # "" => carve(maze, r1, c1, r2, c2) = maze

\* a carve has raised NotAdjacent on a grid that has a passage
CarveFailsWithoutChangeWitness ==
    /\ Idle
    /\ op = "carve"
    /\ err = "NotAdjacent"
    /\ carved_edges(maze) >= 1

-----------------------------------------------------------------------------
(* C6 *)

\* coordinates from below every grid to above every grid
Wide == (MinArg - 1)..(MaxDim + 1)

\* C6: Maze(rows, cols) raises InvalidDimensions whenever rows <= 0 or
\* cols <= 0, and then makes no grid (the caller holds what it held); otherwise
\* it raises nothing and makes a grid of exactly the cells (r, c), 0 <= r < rows,
\* 0 <= c < cols, each with its four walls.
CreateChecksDimensions ==
    [][(Idle /\ op' = "create") =>
        \A d \in DimArgs :
            CallCreate(d[1], d[2]) =>
                IF d[1] <= 0 \/ d[2] <= 0
                THEN err' = "InvalidDimensions" /\ maze' = maze
                ELSE /\ err' = ""
                     /\ maze'.rows = d[1]
                     /\ maze'.cols = d[2]
                     /\ DOMAIN maze'.grid =
                            {c \in Wide \X Wide :
                                0 <= c[1] /\ c[1] < d[1] /\ 0 <= c[2] /\ c[2] < d[2]}
                     /\ \A c \in DOMAIN maze'.grid, w \in WallBits : has_wall(maze'.grid[c], w)
      ]_vars

\* the constructor has raised InvalidDimensions and the caller's carved grid is as it was
CreateChecksDimensionsWitness ==
    /\ op = "create"
    /\ err = "InvalidDimensions"
    /\ HasMaze
    /\ carved_edges(maze) >= 1

-----------------------------------------------------------------------------
(* C7 *)

BorderIntact(m) ==
    \A c \in AllCells(m) :
        /\ c[1] = 0 => has_wall(m.grid[c], NORTH)
        /\ c[1] = m.rows - 1 => has_wall(m.grid[c], SOUTH)
        /\ c[2] = 0 => has_wall(m.grid[c], WEST)
        /\ c[2] = m.cols - 1 => has_wall(m.grid[c], EAST)

\* C7: while and after a generator runs, no wall facing outside the grid is
\* cleared; on a grid of one cell the four walls stay.
GeneratorsKeepBorder ==
    (op \in {"generate", "run"} /\ err = "") =>
        /\ BorderIntact(maze)
        /\ maze.rows * maze.cols = 1 => maze.grid[<<0, 0>>] = ALL

\* the backtracker, called by generate on a 3 x 2 grid, has emptied its stack
GeneratorsKeepBorderWitness ==
    /\ op = "generate"
    /\ err = ""
    /\ pc = "backtracker"
    /\ stack = << >>
    /\ maze.rows = 3
    /\ maze.cols = 2
    /\ carved_edges(maze) = 5

-----------------------------------------------------------------------------
(* C8 *)

\* the root of x: the end of its chain of parents
RECURSIVE RootOf(_, _)
RootOf(parent, x) == IF parent[x] = x THEN x ELSE RootOf(parent, parent[x])

\* find(x) = find(y), called one after the other, for all x and y ever unioned
UFSameRoot ==
    \A x \in DOMAIN uf.parent, y \in DOMAIN uf.parent :
        unioned[x] = unioned[y] =>
            LET fx == find(uf.parent, x)
                fy == find(fx.parent, y)
            IN  fx.root = fy.root

\* union(x, y) returns false exactly when x and y have the same root as it is called
UFUnionReturn ==
    ufret'.op = "union" =>
        \A x \in DOMAIN uf.parent, y \in DOMAIN uf.parent :
            UFUnion(x, y) =>
                (ufret'.merged = FALSE <=> RootOf(uf.parent, x) = RootOf(uf.parent, y))

\* C8: after any sequence of union and find calls, find returns the same root
\* for any two elements ever unioned, directly or transitively, and union
\* returns false exactly when its arguments share a root at the call.
UnionFindContract == []UFSameRoot /\ [][UFUnionReturn]_vars

\* union has returned false in a structure where three elements were unioned
UnionFindContractWitness ==
    /\ ufret.op = "union"
    /\ ~ufret.merged
    /\ \E z \in DOMAIN unioned : Cardinality({x \in DOMAIN unioned : unioned[x] = z}) >= 3

-----------------------------------------------------------------------------
(* C9 *)

Named == {"backtracker", "prim", "kruskal"}

Positive(d) == d[1] > 0 /\ d[2] > 0

\* C9 as stated: generate raises the unknown-algorithm error for every
\* selector other than the three names, whatever rows and cols are, and
\* returns no grid.
GenerateUnknownWhateverDimensions ==
    [][(Idle /\ op' = "generate") =>
        ((\E d \in DimArgs, a \in Selectors \ Named : CallGenerate(d[1], d[2], a)) =>
            (err' = "UnknownAlgorithm" /\ pc' = "idle" /\ maze' = maze))
      ]_vars

\* C9, amended: with rows > 0 and cols > 0 generate raises the
\* unknown-algorithm error for every selector other than the three names and
\* returns no grid; with rows <= 0 or cols <= 0 it raises InvalidDimensions
\* whatever the selector; for each of the three names with positive dimensions
\* it raises nothing and the grid it works on and returns is rows x cols.
GenerateDispatch ==
    [][/\ (Idle /\ op' = "generate") =>
            /\ (\E d \in DimArgs, a \in Selectors :
                    ~Positive(d) /\ CallGenerate(d[1], d[2], a)) =>
                   (err' = "InvalidDimensions" /\ pc' = "idle" /\ maze' = maze)
            /\ (\E d \in DimArgs, a \in Selectors \ Named :
                    Positive(d) /\ CallGenerate(d[1], d[2], a)) =>
                   (err' = "UnknownAlgorithm" /\ pc' = "idle" /\ maze' = maze)
            /\ \A d \in DimArgs, a \in Named :
                   (Positive(d) /\ CallGenerate(d[1], d[2], a)) =>
                       /\ err' = ""
                       /\ pc' = a
                       /\ maze'.rows = d[1]
                       /\ maze'.cols = d[2]
                       /\ DOMAIN maze'.grid = Cells(d[1], d[2])
       /\ (op = "generate" /\ pc \in Named) =>
            /\ err' = ""
            /\ pc' \in {pc, "idle"}
            /\ maze'.rows = maze.rows
            /\ maze'.cols = maze.cols
            /\ DOMAIN maze'.grid = DOMAIN maze.grid
      ]_vars

\* generate has raised the unknown-algorithm error
GenerateDispatchWitness ==
    /\ op = "generate"
    /\ err = "UnknownAlgorithm"
    /\ pc = "idle"

-----------------------------------------------------------------------------
(* C10 *)

\* C10: from any grid state, after a carve between two adjacent cells of the
\* grid, the same carve again, or the carve with the two cells exchanged,
\* raises nothing and leaves the grid as the first carve left it.
CarveIdempotent ==
    (Idle /\ HasMaze) =>
        \A r1 \in CoordArgs, c1 \in CoordArgs, r2 \in CoordArgs, c2 \in CoordArgs :
            carve_error(maze, r1, c1, r2, c2) = "" =>
                LET first == carve(maze, r1, c1, r2, c2)
                IN  /\ carve_error(first, r1, c1, r2, c2) = ""
                    /\ carve(first, r1, c1, r2, c2) = first
                    /\ carve_error(first, r2, c2, r1, c1) = ""
                    /\ carve(first, r2, c2, r1, c1) = first

\* a carve has succeeded on a grid where every internal wall is carved
CarveIdempotentWitness ==
    /\ Idle
    /\ op = "carve"
    /\ err = ""
    /\ maze.rows * maze.cols = 6
    /\ carved_edges(maze) = 7

-----------------------------------------------------------------------------
(* C11 *)

FullyWalled(m) == \A c \in AllCells(m) : m.grid[c] = ALL

\* a generator called on the maze the caller holds has run to the end of its
\* loop, or has returned
RunDone ==
    /\ op = "run"
    /\ err = ""
    /\ \/ pc = "idle"
       \/ pc = "backtracker" /\ stack = << >>
       \/ pc = "prim" /\ frontier = << >>
       \/ pc = "kruskal" /\ walls = << >>

\* reset leaves every cell with its four walls, and a generator run on a held
\* grid ends with a perfect maze
ResetThenPerfect ==
    /\ (op = "reset" /\ HasMaze) => FullyWalled(maze)
    /\ RunDone => PerfectMaze(maze)

\* a generator called on a grid in any wall state starts by walling every
\* cell, and keeps the shape of the grid
RunStartsWalled ==
    (Idle /\ op' = "run") =>
        /\ pc' \in Named
        /\ FullyWalled(maze')
        /\ maze'.rows = maze.rows
        /\ maze'.cols = maze.cols
        /\ DOMAIN maze'.grid = DOMAIN maze.grid

\* C11: reset restores every cell to four walls, and each generator resets
\* before it carves: run on a grid in any prior wall state, it starts from
\* the fully walled grid, so every passage of the perfect maze it ends with
\* was carved by this run.
RegenerateFromAnyState == []ResetThenPerfect /\ [][RunStartsWalled]_vars

\* Prim, called on a grid the caller holds, has emptied its frontier on six cells
RegenerateFromAnyStateWitness ==
    /\ RunDone
    /\ pc = "prim"
    /\ maze.rows * maze.cols = 6

-----------------------------------------------------------------------------
(* C12 *)

\* one iteration, or the exit, of the loop of the running generator
GeneratorStep ==
    \/ BacktrackerStep
    \/ BacktrackerReturn
    \/ PrimStep
    \/ PrimReturn
    \/ KruskalStep
    \/ KruskalReturn

\* the callers of generate alone: every call starts from a fresh grid
NextRun ==
    \/ \E d \in DimArgs, algorithm \in Selectors :
           CallGenerate(d[1], d[2], algorithm)
    \/ GeneratorStep

\* a generator that was called keeps executing: its loop is sequential code
\* that no other operation of the caller can preempt
SpecRun == Init /\ [][NextRun]_vars /\ WF_vars(GeneratorStep)

\* carve raises nothing inside a generator, and when the loop of the
\* backtracker or of Prim ends every cell is marked visited
GeneratorsRaiseNothing ==
    /\ op \in {"generate", "run"} => err \notin {"OutOfBounds", "NotAdjacent"}
    /\ (pc = "backtracker" /\ stack = << >>) => visited = AllCells(maze)
    /\ (pc = "prim" /\ frontier = << >>) => visited = AllCells(maze)

\* a generator returns only from the exit of its loop
GeneratorsReturnAtLoopExit ==
    /\ (pc = "backtracker" /\ pc' = "idle") => stack = << >> /\ err' = ""
    /\ (pc = "prim" /\ pc' = "idle") => frontier = << >> /\ err' = ""
    /\ (pc = "kruskal" /\ pc' = "idle") => walls = << >> /\ err' = ""

\* C12: every generator run returns, whatever the random choices, and carve
\* raises neither OutOfBounds nor NotAdjacent on the way: the backtracker
\* returns with an empty stack, Prim with an empty frontier, Kruskal with no
\* candidate left, and the backtracker and Prim have then visited every cell.
GeneratorsTerminate ==
    /\ []GeneratorsRaiseNothing
    /\ [][GeneratorsReturnAtLoopExit]_vars
    /\ (pc \in Named) ~> (pc = "idle")

\* the backtracker has popped its whole stack on six cells and not yet returned
GeneratorsTerminateWitness ==
    /\ pc = "backtracker"
    /\ stack = << >>
    /\ err = ""
    /\ Cardinality(visited) = 6

-----------------------------------------------------------------------------
(* C13 *)

\* the frontier entry at idx is popped: s is its visited side, t its target
PrimPops(idx) ==
    LET e == frontier[idx]
        s == <<e[1], e[2]>>
        t == <<e[3], e[4]>>
    IN  IF t \notin visited
        THEN /\ maze' # maze
             /\ ~Passage(maze, s, t)
             /\ Passage(maze', s, t)
             /\ carved_edges(maze') = carved_edges(maze) + 1
             /\ visited' = visited \cup {t}
        ELSE /\ maze' = maze
             /\ visited' = visited
             /\ frontier' = RemoveAt(frontier, idx)

\* an iteration of the loop of Prim pops one entry, and carves for it exactly
\* when its target is unvisited; no cell leaves visited
PrimIteration ==
    (pc = "prim" /\ frontier # << >>) =>
        /\ \E idx \in 1..Len(frontier) : PrimPops(idx)
        /\ maze' # maze =>
               \E idx \in 1..Len(frontier) :
                   /\ <<frontier[idx][3], frontier[idx][4]>> \notin visited
                   /\ PrimPops(idx)
        /\ visited \subseteq visited'

PrimCountsPassages ==
    pc = "prim" => carved_edges(maze) = Cardinality(visited) - 1

\* C13: a popped frontier entry of Prim is carved exactly when its target is
\* unvisited at pop time, and its target is then marked visited, so no cell
\* is the target of two carves; a stale entry is dropped and changes neither
\* the grid, nor visited, nor the rest of the frontier; the carved passages
\* always number the visited cells minus one.
PrimCarvesFreshTargetsOnly == []PrimCountsPassages /\ [][PrimIteration]_vars

\* Prim holds a stale entry in its frontier: both of its cells are visited
PrimCarvesFreshTargetsOnlyWitness ==
    /\ pc = "prim"
    /\ Cardinality(visited) >= 3
    /\ \E idx \in 1..Len(frontier) :
           <<frontier[idx][3], frontier[idx][4]>> \in visited

-----------------------------------------------------------------------------
(* C14 *)

\* the unordered pairs of cells of the grid that share a side
AdjacentPairs(m) ==
    {p \in SUBSET AllCells(m) : \E a \in p, b \in p : p = {a, b} /\ Adjacent(a, b)}

\* the candidate list names every internal wall once, as the east or the
\* south wall of its first cell
EnumeratesInternalWalls(m, ws) ==
    /\ Len(ws) = m.rows * (m.cols - 1) + m.cols * (m.rows - 1)
    /\ \A i \in 1..Len(ws) :
           LET a == <<ws[i][1], ws[i][2]>>
               b == <<ws[i][3], ws[i][4]>>
           IN  /\ a \in AllCells(m)
               /\ b \in AllCells(m)
               /\ b = Toward(a, EAST) \/ b = Toward(a, SOUTH)
    /\ \A p \in AdjacentPairs(m) :
           Cardinality({i \in 1..Len(ws) :
                           {<<ws[i][1], ws[i][2]>>, <<ws[i][3], ws[i][4]>>} = p}) = 1

\* the call of Kruskal builds the list; each iteration takes one candidate out
\* of it and leaves the others as they are
KruskalCandidates ==
    /\ (pc # "kruskal" /\ pc' = "kruskal") => EnumeratesInternalWalls(maze', walls')
    /\ (pc = "kruskal" /\ pc' = "kruskal") =>
           \E i \in 1..Len(walls) : walls' = RemoveAt(walls, i)

\* C14: Kruskal's candidate list holds every internal wall of the grid exactly
\* once, as the east or south wall of its first cell, rows*(cols-1) +
\* cols*(rows-1) candidates in all, and the order in which the loop takes
\* them is a permutation of that list: one candidate per iteration, none
\* added, none taken twice.
KruskalEnumeratesWalls == [][KruskalCandidates]_vars

\* Kruskal has taken all seven candidates of a six-cell grid
KruskalEnumeratesWallsWitness ==
    /\ pc = "kruskal"
    /\ walls = << >>
    /\ maze.rows * maze.cols = 6
    /\ carved_edges(maze) = 5

-----------------------------------------------------------------------------
(* C15 *)

\* the cells of one union-find set are the cells joined by carved passages
KruskalSetsAreComponents ==
    pc = "kruskal" =>
        /\ \A a \in AllCells(maze) :
               LET connected == Reachable(maze, {a})
                   root == RootOf(uf.parent, cell_index(maze, a[1], a[2]))
               IN  \A b \in AllCells(maze) :
                       (RootOf(uf.parent, cell_index(maze, b[1], b[2])) = root)
                       <=> b \in connected
        /\ \A i \in 1..Len(walls) :
               LET idx1 == cell_index(maze, walls[i][1], walls[i][2])
                   idx2 == cell_index(maze, walls[i][3], walls[i][4])
                   f1 == find(uf.parent, idx1)
                   f2 == find(f1.parent, idx2)
               IN  f1.root # f2.root =>
                       union([parent |-> f2.parent, rank |-> uf.rank], idx1, idx2).ret

\* candidate i is taken: it is carved when its cells are in different sets,
\* which are then not yet connected, and skipped otherwise
KruskalTakes(i) ==
    LET a == <<walls[i][1], walls[i][2]>>
        b == <<walls[i][3], walls[i][4]>>
    IN  /\ walls' = RemoveAt(walls, i)
        /\ IF RootOf(uf.parent, cell_index(maze, a[1], a[2]))
                  # RootOf(uf.parent, cell_index(maze, b[1], b[2]))
           THEN /\ b \notin Reachable(maze, {a})
                /\ Passage(maze', a, b)
                /\ carved_edges(maze') = carved_edges(maze) + 1
                /\ RootOf(uf'.parent, cell_index(maze, a[1], a[2]))
                       = RootOf(uf'.parent, cell_index(maze, b[1], b[2]))
           ELSE maze' = maze

KruskalIteration ==
    (pc = "kruskal" /\ walls # << >>) => \E i \in 1..Len(walls) : KruskalTakes(i)

\* C15: at every step of Kruskal's loop two cells have the same union-find
\* root exactly when carved passages connect them; a candidate is carved
\* exactly when its cells are in different sets, so no carve closes a cycle,
\* and the union that follows a carve merges two sets and returns true.
KruskalTracksComponents == []KruskalSetsAreComponents /\ [][KruskalIteration]_vars

\* Kruskal still holds a candidate whose two cells are already connected
KruskalTracksComponentsWitness ==
    /\ pc = "kruskal"
    /\ carved_edges(maze) >= 3
    /\ \E i \in 1..Len(walls) :
           <<walls[i][3], walls[i][4]>> \in Reachable(maze, {<<walls[i][1], walls[i][2]>>})

-----------------------------------------------------------------------------
(* C16 *)

\* the elements on the parent chain from x to its root, both included
RECURSIVE Chain(_, _)
Chain(parent, x) == IF parent[x] = x THEN {x} ELSE {x} \cup Chain(parent, parent[x])

SamePartition(p, q) ==
    \A a \in DOMAIN p, b \in DOMAIN p :
        (RootOf(p, a) = RootOf(p, b)) <=> (RootOf(q, a) = RootOf(q, b))

\* find on any element of the current arrays
FindResult ==
    \A x \in DOMAIN uf.parent :
        LET f == find(uf.parent, x)
            r == RootOf(uf.parent, x)
        IN  /\ f.root = r
            /\ DOMAIN f.parent = DOMAIN uf.parent
            /\ \A z \in Chain(uf.parent, x) : f.parent[z] = r
            /\ SamePartition(uf.parent, f.parent)

\* a call of find leaves the ranks, and the sets, as they were
FindKeepsRank ==
    ufret'.op = "find" =>
        /\ uf'.rank = uf.rank
        /\ SamePartition(uf.parent, uf'.parent)
        /\ ufret'.root = RootOf(uf.parent, ufret'.root)
        /\ uf'.parent[ufret'.root] = ufret'.root

\* C16: find(x) returns the root r at the end of the parent chain of x and
\* leaves x and every element of that chain with r as its direct parent; it
\* changes neither which elements share a root nor the rank array.
FindCompressesPath == []FindResult /\ [][FindKeepsRank]_vars

\* find has flattened a two-level tree of four elements: its root has rank 2
\* and is now the direct parent of every element
FindCompressesPathWitness ==
    /\ ufret.op = "find"
    /\ DOMAIN uf.parent = 0..3
    /\ uf.rank[ufret.root] = 2
    /\ \A z \in DOMAIN uf.parent : uf.parent[z] = ufret.root

-----------------------------------------------------------------------------
(* C17 *)

\* union on any two elements of the current arrays: rx and ry are the roots
\* of x and of y before the call
UnionResult ==
    \A x \in DOMAIN uf.parent, y \in DOMAIN uf.parent :
        LET u == union(uf, x, y)
            rx == RootOf(uf.parent, x)
            ry == RootOf(uf.parent, y)
        IN  IF rx = ry
            THEN /\ ~u.ret
                 /\ u.rank = uf.rank
                 /\ SamePartition(uf.parent, u.parent)
            ELSE /\ u.ret
                 /\ RootOf(u.parent, x) = RootOf(u.parent, y)
                 /\ IF uf.rank[rx] < uf.rank[ry]
                    THEN /\ u.parent[rx] = ry
                         /\ u.parent[ry] = ry
                         /\ u.rank = uf.rank
                    ELSE IF uf.rank[rx] > uf.rank[ry]
                    THEN /\ u.parent[ry] = rx
                         /\ u.parent[rx] = rx
                         /\ u.rank = uf.rank
                    ELSE /\ u.parent[ry] = rx
                         /\ u.parent[rx] = rx
                         /\ u.rank = [uf.rank EXCEPT ![rx] = @ + 1]

\* a call of union that merges changes the rank of at most one element, by one
UnionRankStep ==
    ufret'.op = "union" =>
        IF ufret'.merged
        THEN \E r \in DOMAIN uf.rank :
                 \/ uf'.rank = uf.rank
                 \/ uf'.rank = [uf.rank EXCEPT ![r] = @ + 1]
        ELSE uf'.rank = uf.rank /\ SamePartition(uf.parent, uf'.parent)

\* C17: union(x, y) with different roots puts the root of strictly smaller
\* rank under the root of larger rank and changes no rank; on equal ranks it
\* puts the root of y under the root of x and adds exactly 1 to the rank of
\* the root of x; with equal roots it merges nothing and changes no rank.
UnionLinksByRank == []UnionResult /\ [][UnionRankStep]_vars

\* a union has put a root of rank 0 under a root of rank 1: three elements
\* in one set, whose root has still rank 1
UnionLinksByRankWitness ==
    /\ ufret.op = "union"
    /\ ufret.merged
    /\ \E r \in DOMAIN uf.parent :
           /\ uf.rank[r] = 1
           /\ Cardinality({z \in DOMAIN uf.parent : RootOf(uf.parent, z) = r}) = 3

-----------------------------------------------------------------------------
(* C18 *)

\* the least number of moves, each through a side without a wall of the cell
\* it leaves, that lead from (0,0) to the cell c it reaches
Dist(m, c) ==
    CHOOSE k \in 0..(m.rows * m.cols) :
        /\ c \in Within(m, {Start}, k)
        /\ k = 0 \/ c \notin Within(m, {Start}, k - 1)

\* the queue is ordered by path length, holds no cell twice nor an unseen
\* cell, and holds with each cell a path from (0,0) of that cell's distance
BfsQueueOrdered ==
    pc = "bfs" =>
        /\ \A i \in 1..Len(queue), j \in 1..Len(queue) :
               i < j => /\ Len(queue[i][2]) <= Len(queue[j][2])
                        /\ queue[i][1] # queue[j][1]
        /\ \A i \in 1..Len(queue) :
               LET cell == queue[i][1]
                   path == queue[i][2]
               IN  /\ cell \in seen
                   /\ path[1] = Start
                   /\ path[Len(path)] = cell
                   /\ cell \in Reachable(maze, {Start})
                   /\ Len(path) - 1 = Dist(maze, cell)

BfsReturnsShortest ==
    (Solved /\ ~ret.none) => Len(ret.path) - 1 = Dist(maze, Goal(maze))

\* an iteration dequeues the head; what it enqueues goes behind the rest, is
\* no cell seen before, and is seen from then on
BfsDequeue ==
    (pc = "bfs" /\ queue # << >>) =>
        IF pc' = "bfs"
        THEN /\ Len(queue') >= Len(queue) - 1
             /\ SubSeq(queue', 1, Len(queue) - 1) = Tail(queue)
             /\ \A i \in Len(queue)..Len(queue') : queue'[i][1] \notin seen
             /\ seen' = seen \cup {queue'[i][1] : i \in Len(queue)..Len(queue')}
             /\ queue' # << >> => Len(queue'[1][2]) >= Len(queue[1][2])
        ELSE /\ queue[1][1] = Goal(maze)
             /\ ret' = [none |-> FALSE, path |-> queue[1][2]]

\* C18: solve_bfs dequeues cells in nondecreasing distance from (0,0): the
\* path of a dequeued entry is never shorter than the path of the entry
\* dequeued before it; no cell is enqueued twice; the path kept with a cell
\* has as many moves as the cell's shortest wall-free distance from (0,0);
\* so the path returned at the first dequeue of the goal is a shortest one.
BfsDequeuesByDistance ==
    /\ []BfsQueueOrdered
    /\ []BfsReturnsShortest
    /\ [][BfsDequeue]_vars

\* the queue of solve_bfs holds cells of two different distances
BfsDequeuesByDistanceWitness ==
    /\ pc = "bfs"
    /\ Len(queue) >= 2
    /\ Len(queue[1][2]) >= 2
    /\ Len(queue[Len(queue)][2]) > Len(queue[1][2])

-----------------------------------------------------------------------------
(* C19 *)

\* the two sides of every internal wall of m agree
Symmetric(m) ==
    \A a \in AllCells(m), d \in WallBits :
        Toward(a, d) \in AllCells(m) =>
            (has_wall(m.grid[a], d) <=> has_wall(m.grid[Toward(a, d)], Opposite(d)))

\* the wall d of cell c, present when either of its two sides is
MutualBit(m, c, d) ==
    IF \/ has_wall(m.grid[c], d)
       \/ Toward(c, d) \in AllCells(m) /\ has_wall(m.grid[Toward(c, d)], Opposite(d))
    THEN d ELSE 0

\* m with every wall that stands on one side standing on both: its open sides
\* are the passages of m that are clear in both cells
Mutual(m) ==
    [m EXCEPT !.grid = [c \in AllCells(m) |->
        MutualBit(m, c, NORTH) + MutualBit(m, c, EAST)
            + MutualBit(m, c, SOUTH) + MutualBit(m, c, WEST)]]

\* p leads from (0,0) to the goal by moves between adjacent cells of m
Route(m, p) ==
    /\ Len(p) >= 1
    /\ p[1] = Start
    /\ p[Len(p)] = Goal(m)
    /\ \A i \in 1..Len(p) : p[i] \in AllCells(m)
    /\ \A i \in 1..(Len(p) - 1) : Adjacent(p[i], p[i + 1])

\* the original statement: the returned path crosses only walls clear in both
\* cells, and the absent-path signal is returned exactly when no path of such
\* passages leads from (0,0) to the goal
SolveOnAnyWallsBothSides ==
    Solved =>
        /\ ~ret.none =>
               /\ Route(maze, ret.path)
               /\ \A i \in 1..(Len(ret.path) - 1) :
                      Passage(maze, ret.path[i], ret.path[i + 1])
        /\ ret.none <=> Goal(maze) \notin Reachable(Mutual(maze), {Start})

\* C19: on every wall configuration of a grid, written by carve or not, a
\* path returned by solve_bfs leads from (0,0) to the goal by moves between
\* adjacent cells, each through a side whose wall bit is clear in the cell
\* the move leaves (on a grid whose walls agree on both sides, clear in both
\* cells); the absent-path signal is returned exactly when no such sequence
\* of moves exists.
SolveOnAnyWalls ==
    Solved =>
        /\ ~ret.none =>
               /\ Route(maze, ret.path)
               /\ \A i \in 1..(Len(ret.path) - 1) :
                      ~has_wall(maze.grid[ret.path[i]],
                                Facing(ret.path[i], ret.path[i + 1]))
               /\ Symmetric(maze) =>
                      \A i \in 1..(Len(ret.path) - 1) :
                          Passage(maze, ret.path[i], ret.path[i + 1])
        /\ ret.none <=> Goal(maze) \notin Reachable(maze, {Start})

\* solve_bfs has returned a path of three cells on a grid whose walls do not
\* agree on both sides
SolveOnAnyWallsWitness ==
    /\ Solved
    /\ ~ret.none
    /\ Len(ret.path) = 3
    /\ ~Symmetric(maze)

-----------------------------------------------------------------------------
(* C20 *)

\* the stack is a path of carved passages through distinct visited cells
BacktrackerStackIsPath ==
    pc = "backtracker" =>
        /\ \A i \in 1..Len(stack) : stack[i] \in visited
        /\ \A i \in 1..Len(stack), j \in 1..Len(stack) : i < j => stack[i] # stack[j]
        /\ \A i \in 1..(Len(stack) - 1) : Passage(maze, stack[i], stack[i + 1])
        /\ carved_edges(maze) = Cardinality(visited) - 1

\* an iteration pushes a cell never visited before, and so never pushed
\* before, or pops the top; the bottom of the stack is the start cell as long
\* as the stack holds a cell
BacktrackerIteration ==
    (pc = "backtracker" /\ stack # << >>) =>
        /\ pc' = "backtracker"
        /\ visited \subseteq visited'
        /\ \/ /\ Len(stack') = Len(stack) + 1
              /\ SubSeq(stack', 1, Len(stack)) = stack
              /\ stack'[Len(stack')] \notin visited
              /\ visited' = visited \cup {stack'[Len(stack')]}
              /\ ~Passage(maze, stack[Len(stack)], stack'[Len(stack')])
           \/ /\ stack' = SubSeq(stack, 1, Len(stack) - 1)
              /\ visited' = visited
              /\ maze' = maze

\* C20: at every iteration of the backtracker's loop the stack holds pairwise
\* distinct visited cells that form a path from the start cell, each
\* consecutive pair adjacent and joined by a carved passage; a cell is
\* pushed at most once; the carved passages number the visited cells minus one.
BacktrackerStackInvariant ==
    []BacktrackerStackIsPath /\ [][BacktrackerIteration]_vars

\* the backtracker has backed out of a dead end: its stack is shorter than
\* the set of visited cells, and holds at least three cells
BacktrackerStackInvariantWitness ==
    /\ pc = "backtracker"
    /\ Len(stack) >= 3
    /\ Cardinality(visited) > Len(stack)

-----------------------------------------------------------------------------
(* C21 *)

\* C21: in every state the caller of the package can reach by create, reset,
\* carve (raising or not) and generator runs, the states inside a generator
\* run included, each pair of adjacent cells of the grid agrees on the wall
\* between them: A has a wall toward B exactly when B has a wall toward A.
WallsStaySymmetric == HasMaze => Symmetric(maze)

\* a carve call has raised NotAdjacent on a grid that holds carved passages
\* and walls still standing between adjacent cells
WallsStaySymmetricWitness ==
    /\ op = "carve"
    /\ err = "NotAdjacent"
    /\ carved_edges(maze) >= 3
    /\ carved_edges(maze) < maze.rows * (maze.cols - 1) + maze.cols * (maze.rows - 1)

=============================================================================
